---- MODULE Spec2Model ----
(***************************************************************************)
(* Outlook / OpenAI draft-reply integration.                               *)
(*                                                                         *)
(* Four state machines share this module:                                  *)
(*   SpecGate   the Domain Gate (OpenAIHandler.should_process_email) on    *)
(*              character strings;                                         *)
(*   SpecSelect, SpecStore  the training store and its context selectors   *)
(*              (training_system.py);                                      *)
(*   Spec, SpecDrafts, SpecGen, SpecRerun, SpecLoad, SpecZero  the         *)
(*              serverless scan (api/outlook_openai.py): intake, detectors,*)
(*              gate, generation, draft creation, from different initial   *)
(*              mailboxes.                                                 *)
(*   SpecSenders, SpecWide  the same scan with an allow-list over several  *)
(*              senders, and with a threshold longer than the lookback;    *)
(*   SpecSched  the cycles of the scheduled integration                    *)
(*              (outlook_openai_integration.py).                           *)
(* Each specification leaves the variables of the others at their initial  *)
(* values.                                                                 *)
(***************************************************************************)
EXTENDS Integers, Sequences, FiniteSets, TLC

VARIABLES
    \* ---- Domain Gate (SpecGate)
    gate_env,           \* the ALLOWED_DOMAINS environment string (characters)
    gate_sender,        \* the sender address handed to the gate (characters)
    gate_called,        \* should_process_email has returned
    gate_result,        \* the BOOLEAN it returned
    \* ---- training store (SpecTrain, and read by Spec)
    training_file,      \* training_data.json: [state, data]
    templates_file,     \* response_templates.json: [state, data]
    training_examples,  \* TrainingSystem.training_examples (in memory)
    templates,          \* TrainingSystem.templates (in memory)
    ts_up,              \* a TrainingSystem object has been constructed
    query,              \* last (email_type, tone) given to the selectors
    context,            \* the two blocks the selectors returned for it
    \* ---- mailbox provider (Spec and its variants)
    messages,           \* /me/messages, newest first
    drafts,             \* /me/mailFolders/Drafts/messages, newest first
    now,                \* datetime.now(), in ticks
    \* ---- configuration
    days_threshold,     \* OutlookOpenAIIntegration.days_threshold
    allowed_domains,    \* OpenAIHandler.allowed_domains
    \* ---- MicrosoftGraphAPI
    access_token,       \* a token is held
    token_expires,      \* its expiry time
    \* ---- one process_emails invocation
    pc,                 \* "idle", "fetch", "intake", "process"
    left,               \* invocations the scheduler will still make
    fetched,            \* response.json()["value"] of the listing
    threshold_date,     \* threshold_date of get_emails_needing_replies
    emails,             \* the candidate list
    idx,                \* position of the running for loop
    processed_count,    \* processed_count of process_emails
    result,             \* the ProcessingResult
    calls,              \* the external calls of the last step, in order
    last_gen            \* the generate_draft_response call of the last pass

gateVars  == <<gate_env, gate_sender, gate_called, gate_result>>
trainVars == <<training_file, templates_file, training_examples, templates,
               ts_up, query, context>>
mailVars  == <<messages, drafts, now>>
confVars  == <<days_threshold, allowed_domains>>
tokenVars == <<access_token, token_expires>>
loopVars  == <<pc, left, fetched, threshold_date, emails, idx, processed_count,
               result, calls, last_gen>>
scanVars  == <<mailVars, confVars, tokenVars, loopVars>>
vars      == <<gateVars, trainVars, scanVars>>

(***************************************************************************)
(* Generic helpers.                                                        *)
(***************************************************************************)
Range(s) == {s[i] : i \in 1..Len(s)}

BoundedSeq(S, n) == UNION {[1..k -> S] : k \in 0..n}

Min(a, b) == IF a <= b THEN a ELSE b

\* s[:n] of Python: the first n elements, or all of s when it is shorter.
Take(s, n) == SubSeq(s, 1, Min(n, Len(s)))

(***************************************************************************)
(* Domain Gate: strings are sequences of one-character strings.            *)
(***************************************************************************)
MaxAddr == 3        \* longest sender address enumerated
MaxEnv  == 3        \* longest ALLOWED_DOMAINS string enumerated

AddrChars == {"x", "@", "a", "c", "A"}
EnvChars  == {"a", "b", ","}

\* str.split(sep) of Python for a one-character separator: always at least
\* one part, empty parts kept.
RECURSIVE Split(_, _)
Split(s, sep) ==
    IF s = <<>> THEN << <<>> >>
    ELSE LET rest == Split(Tail(s), sep)
         IN  IF Head(s) = sep
                THEN << <<>> >> \o rest
                ELSE << <<Head(s)>> \o Head(rest) >> \o Tail(rest)

\* os.getenv('ALLOWED_DOMAINS', '').split(',') if os.getenv(...) else []
ParseAllowedDomains(env) == IF env = <<>> THEN <<>> ELSE Split(env, ",")

Fold(c) == IF c = "A" THEN "a" ELSE c

should_process_email_nocase(allowed, sender) ==
    \/ allowed = <<>>
    \/ LET parts == Split(sender, "@")
           dom   == parts[Len(parts)]
       IN  [i \in 1..Len(dom) |-> Fold(dom[i])] \in Range(allowed)

\* OpenAIHandler.should_process_email: sender.split('@')[-1] in allowed
should_process_email(allowed, sender) ==
    IF allowed = <<>> THEN TRUE
    ELSE LET parts         == Split(sender, "@")
             sender_domain == parts[Len(parts)]
         IN  sender_domain \in Range(allowed)

GateInit ==
    /\ gate_env \in BoundedSeq(EnvChars, MaxEnv)
    /\ gate_sender \in BoundedSeq(AddrChars, MaxAddr)
    /\ gate_called = FALSE
    /\ gate_result = FALSE

GateIdle ==
    /\ gate_env = <<>>
    /\ gate_sender = <<>>
    /\ gate_called = FALSE
    /\ gate_result = FALSE

\* OpenAIHandler.__init__ followed by one should_process_email call.
GateCheck ==
    /\ ~gate_called
    /\ gate_called' = TRUE
    /\ gate_result' = should_process_email(ParseAllowedDomains(gate_env), gate_sender)
    /\ UNCHANGED <<gate_env, gate_sender, trainVars, scanVars>>

(***************************************************************************)
(* Training store.                                                         *)
(***************************************************************************)
MaxRecords == 8     \* examples plus templates handed to the selectors
MaxStored  == 2     \* examples, and templates, authored into the store
MAX_EXAMPLES  == 5  \* filtered_examples[:5]
MAX_TEMPLATES == 3  \* filtered_templates[:3]

None == ""          \* None and the empty string: both falsy in `if email_type:`

EmailTypes == {"inquiry", "complaint"}
Tones      == {"professional", "friendly"}

\* The (email_type, tone) pairs an authoring call is given.  original_email
\* and name carry the authoring order, so that records are distinguishable.
ExampleKinds  == {<<"inquiry", "professional">>, <<"inquiry", "friendly">>,
                  <<"complaint", "professional">>}
TemplateKinds == {<<"inquiry", "friendly">>, <<"complaint", "professional">>}

TrainingExample(n, kind) ==
    [original_email |-> n, email_type |-> kind[1], tone |-> kind[2]]

ResponseTemplate(n, kind) ==
    [name |-> n, email_type |-> kind[1], tone |-> kind[2]]

NoFile      == [state |-> "absent", data |-> <<>>]
FileOf(d)   == [state |-> "ok", data |-> d]
CorruptFile == [state |-> "corrupt", data |-> <<>>]

\* A file that holds the records d next to something that does not parse
\* or does not construct a record.
BadFileOf(d) == [state |-> "corrupt", data |-> d]

LoadFile_lenient(file, readOk) == IF readOk THEN file.data ELSE <<>>

\* load_training_data / load_templates: the records of a readable file, the
\* empty list when the file is absent, unreadable or does not parse.
LoadFile(file, readOk) ==
    IF file.state = "ok" /\ readOk THEN file.data ELSE <<>>

\* save_training_data / save_templates: open(..., 'w') then json.dump.  A
\* failure before the open leaves the file; one after it leaves a truncated
\* file, which no longer parses.
SaveFile(file, records, outcome) ==
    CASE outcome = "saved"     -> FileOf(records)
      [] outcome = "refused"   -> file
      [] outcome = "truncated" -> CorruptFile

SaveOutcomes == {"saved", "refused", "truncated"}

get_training_context_fallback(examples, email_type, tone) ==
    LET f1 == IF email_type # None
                 THEN SelectSeq(examples, LAMBDA e : e.email_type = email_type)
                 ELSE examples
        f2 == IF tone # None
                 THEN SelectSeq(f1, LAMBDA e : e.tone = tone)
                 ELSE f1
        f3 == IF f2 = <<>> THEN examples ELSE f2
        shown == Take(f3, MAX_EXAMPLES)
    IN  [i \in 1..Len(shown) |-> [n |-> i, example |-> shown[i]]]

\* TrainingSystem.get_training_context.  The block is the list of rendered
\* records "Example i: ..." (the empty list is the empty string "").
get_training_context(examples, email_type, tone) ==
    IF examples = <<>> THEN <<>>
    ELSE LET f1 == IF email_type # None
                      THEN SelectSeq(examples, LAMBDA e : e.email_type = email_type)
                      ELSE examples
             filtered_examples ==
                   IF tone # None
                      THEN SelectSeq(f1, LAMBDA e : e.tone = tone)
                      ELSE f1
             shown == Take(filtered_examples, MAX_EXAMPLES)
         IN  [i \in 1..Len(shown) |-> [n |-> i, example |-> shown[i]]]

\* TrainingSystem.get_template_context: the list of rendered templates.
get_template_context(tmpls, email_type) ==
    IF tmpls = <<>> THEN <<>>
    ELSE LET filtered_templates ==
                   IF email_type # None
                      THEN SelectSeq(tmpls, LAMBDA t : t.email_type = email_type)
                      ELSE tmpls
         IN  Take(filtered_templates, MAX_TEMPLATES)

SelectBlocks_tonefiltered(examples, tmpls, email_type, tone) ==
    [examples  |-> get_training_context(examples, email_type, tone),
     templates |-> IF tone # None
                      THEN SelectSeq(get_template_context(tmpls, email_type),
                                  LAMBDA t : t.tone = tone)
                      ELSE get_template_context(tmpls, email_type)]

\* generate_customized_response, lines 192-193: the two blocks of a request.
SelectBlocks(examples, tmpls, email_type, tone) ==
    [examples  |-> get_training_context(examples, email_type, tone),
     templates |-> get_template_context(tmpls, email_type)]

NoQuery   == [email_type |-> "-", tone |-> "-"]
NoContext == [examples |-> <<>>, templates |-> <<>>]

\* No TrainingSystem constructed yet, nothing stored.
TrainInit ==
    /\ training_file = NoFile
    /\ templates_file = NoFile
    /\ training_examples = <<>>
    /\ templates = <<>>
    /\ ts_up = FALSE
    /\ query = NoQuery
    /\ context = NoContext

\* The stores that k authoring calls leave behind, in authoring order.
ExampleStores(n) ==
    UNION {{[i \in 1..k |-> TrainingExample(i, f[i])] : f \in [1..k -> ExampleKinds]}
           : k \in 0..n}

TemplateStores(n) ==
    UNION {{[i \in 1..k |-> ResponseTemplate(i, f[i])] : f \in [1..k -> TemplateKinds]}
           : k \in 0..n}

\* A constructed TrainingSystem over any store of at most MaxRecords records.
SelectInit ==
    /\ training_examples \in ExampleStores(MaxRecords)
    /\ templates \in TemplateStores(MaxRecords - Len(training_examples))
    /\ training_file = FileOf(training_examples)
    /\ templates_file = FileOf(templates)
    /\ ts_up = TRUE
    /\ query = NoQuery
    /\ context = NoContext

\* TrainingSystem.__init__: load_training_data, then load_templates.
TrainingSystemInit ==
    \E readEx \in BOOLEAN, readTm \in BOOLEAN :
        /\ training_examples' = LoadFile(training_file, readEx)
        /\ templates' = LoadFile(templates_file, readTm)
        /\ ts_up' = TRUE
        /\ query' = NoQuery
        /\ context' = NoContext
        /\ UNCHANGED <<training_file, templates_file, gateVars, scanVars>>

\* TrainingSystem.add_training_example: append, then save_training_data.
add_training_example ==
    \E kind \in ExampleKinds, outcome \in SaveOutcomes :
        /\ ts_up
        /\ Len(training_examples) < MaxStored
        /\ training_examples' =
               Append(training_examples,
                      TrainingExample(Len(training_examples) + 1, kind))
        /\ training_file' = SaveFile(training_file, training_examples', outcome)
        /\ UNCHANGED <<templates_file, templates, ts_up, query, context,
                       gateVars, scanVars>>

\* TrainingSystem.add_response_template: append, then save_templates.
add_response_template ==
    \E kind \in TemplateKinds, outcome \in SaveOutcomes :
        /\ ts_up
        /\ Len(templates) < MaxStored
        /\ templates' =
               Append(templates, ResponseTemplate(Len(templates) + 1, kind))
        /\ templates_file' = SaveFile(templates_file, templates', outcome)
        /\ UNCHANGED <<training_file, training_examples, ts_up, query, context,
                       gateVars, scanVars>>

\* The selection step of generate_customized_response(email_type, tone).
SelectContext ==
    \E email_type \in EmailTypes \cup {None}, tone \in Tones \cup {None} :
        /\ ts_up
        /\ query = NoQuery
        /\ query' = [email_type |-> email_type, tone |-> tone]
        /\ context' = SelectBlocks(training_examples, templates, email_type, tone)
        /\ UNCHANGED <<training_file, templates_file, training_examples,
                       templates, ts_up, gateVars, scanVars>>

(***************************************************************************)
(* Serverless scan: time, strings, tokens.                                 *)
(***************************************************************************)
TicksPerDay == 2    \* clock ticks per day
MaxTicks    == 1    \* ticks the clock advances while the model runs
MaxMsgs     == 2    \* messages in the mailbox

LOOKBACK_DAYS          == 7     \* timedelta(days=7)
FETCH_TOP              == 100   \* "$top": 100
DRAFT_TOP              == 50    \* "$top": 50
DEFAULT_DAYS_THRESHOLD == 4     \* os.getenv('DAYS_THRESHOLD', 4)
EXPIRES_IN             == 1     \* expires_in (3600 s), rounded up to a tick

\* timedelta(days=d), and timedelta.days: whole days, rounded down.
timedelta(d) == d * TicksPerDay
DaysOf(delta) == delta \div TicksPerDay

\* A subject is a sequence of tokens: "Re: ", "RE: ", an identifier, a word.
\* sub in s
Contains(s, sub) ==
    \E k \in 1..(Len(s) - Len(sub) + 1) : SubSeq(s, k, k + Len(sub) - 1) = sub

\* str.strip(): a text is a sequence of characters, " " the whitespace.
RECURSIVE LStrip(_)
LStrip(t) == IF t # <<>> /\ Head(t) = " " THEN LStrip(Tail(t)) ELSE t

RECURSIVE RStrip(_)
RStrip(t) ==
    IF t # <<>> /\ t[Len(t)] = " " THEN RStrip(SubSeq(t, 1, Len(t) - 1)) ELSE t

Strip(t) == RStrip(LStrip(t))

\* dateutil.parser.parse(item["receivedDateTime"]): a string that carries a
\* UTC designator ("...Z") parses to a timezone-aware datetime, one without
\* to a naive datetime.
ParseDate(receivedDateTime) ==
    [t |-> receivedDateTime.t, aware |-> receivedDateTime.zone # ""]

\* Email(...) of lines 104-111.
ParseItem(item) ==
    [id |-> item.id, subject |-> item.subject, sender |-> item.sender,
     received_date |-> ParseDate(item.receivedDateTime),
     is_read |-> item.isRead]

\* The token held by MicrosoftGraphAPI.
Tok == [present |-> access_token, expires |-> token_expires]

\* MicrosoftGraphAPI.authenticate: a new token on success, nothing changed
\* on failure.
authenticate(tok, t, ok) ==
    IF ok THEN [present |-> TRUE, expires |-> t + EXPIRES_IN] ELSE tok

NeedsAuth_absent(tok, t) == ~tok.present

\* The condition of _get_headers.
NeedsAuth(tok, t) == ~tok.present \/ t >= tok.expires

\* One provider request: _get_headers (which authenticates first when it
\* has to, and raises when that fails), then the HTTP call and
\* raise_for_status.
Send(tok, t, authOk, reqOk) ==
    LET reauth == NeedsAuth(tok, t)
        sent   == ~reauth \/ authOk
    IN  [token  |-> IF reauth THEN authenticate(tok, t, authOk) ELSE tok,
         reauth |-> reauth,
         sent   |-> sent,
         ok     |-> sent /\ reqOk]

\* The outcomes of a request: none to choose from when it is not made.
Outcomes(made) == IF made THEN BOOLEAN ELSE {TRUE}

\* The outcomes of the token request of _get_headers, made only when no
\* valid token is held.
AuthOutcomes(made, tok) == Outcomes(made /\ NeedsAuth(tok, now))

\* An external call, as logged in calls.
Entry(op, id, info, days, ok) ==
    [op |-> op, id |-> id, info |-> info, days |-> days, ok |-> ok]

\* The log of one provider request.
SendLog(r, op, id, info) ==
    (IF r.reauth THEN <<Entry("authenticate", "-", "-", 0, r.sent)>>
                 ELSE <<>>)
    \o (IF r.sent THEN <<Entry(op, id, info, 0, r.ok)>> ELSE <<>>)

(***************************************************************************)
(* Detectors.                                                              *)
(***************************************************************************)
DraftMatches_exact(email_id, listing) ==
    \E i \in 1..Len(listing) : listing[i].subject = <<"Re: ", email_id>>

\* Lines 173-178: some listed draft has the identifier in its subject.
DraftMatches(email_id, listing) ==
    \E i \in 1..Len(listing) :
        \/ Contains(listing[i].subject, <<email_id>>)
        \/ Contains(listing[i].subject, <<"Re: ", email_id>>)

\* _check_for_draft_response, given the outcome r of its request.
check_for_draft_response(email_id, r) ==
    r.ok /\ DraftMatches(email_id, Take(drafts, DRAFT_TOP))

ReplyMatches_notstrict(email_id, original_t) ==
    \E i \in 1..Len(messages) :
        /\ \/ messages[i].subject = <<"Re: ", email_id>>
           \/ messages[i].subject = <<"RE: ", email_id>>
        /\ messages[i].receivedDateTime.t >= original_t

\* The filter of lines 137-142, as the provider evaluates it.
ReplyMatches(email_id, original_t) ==
    \E i \in 1..Len(messages) :
        /\ \/ messages[i].subject = <<"Re: ", email_id>>
           \/ messages[i].subject = <<"RE: ", email_id>>
        /\ messages[i].receivedDateTime.t > original_t

check_for_replies_failclosed(email_id, original_date, r) ==
    ~r.ok \/ ReplyMatches(email_id, original_date.t)

\* _check_for_replies, given the outcome r of its request.
check_for_replies(email_id, original_date, r) ==
    r.ok /\ ReplyMatches(email_id, original_date.t)

\* Line 114: email.received_date >= threshold_date (both naive).
InWindow(received_date, threshold) == received_date.t >= threshold

\* The body of the for loop of get_emails_needing_replies for one item.
\* Comparing an aware received_date with the naive threshold_date raises
\* TypeError.
IntakeOne(item, authOk1, draftsOk, authOk2, repliesOk) ==
    LET email == ParseItem(item)
        d     == Send(Tok, now, authOk1, draftsOk)
        has_draft == check_for_draft_response(email.id, d)
        r     == Send(d.token, now, authOk2, repliesOk)
        has_replies == check_for_replies(email.id, email.received_date, r)
        dlog  == SendLog(d, "list_drafts", email.id,
                         IF has_draft THEN "found" ELSE "none")
        rlog  == SendLog(r, "list_replies", email.id,
                         IF has_replies THEN "found" ELSE "none")
    IN  IF email.received_date.aware
           THEN [raised |-> TRUE, keep |-> FALSE, email |-> email,
                 token |-> Tok, log |-> <<>>]
        ELSE IF ~InWindow(email.received_date, threshold_date)
           THEN [raised |-> FALSE, keep |-> FALSE, email |-> email,
                 token |-> Tok, log |-> <<>>]
        ELSE IF has_draft
           THEN [raised |-> FALSE, keep |-> FALSE, email |-> email,
                 token |-> d.token, log |-> dlog]
        ELSE [raised |-> FALSE, keep |-> ~has_replies, email |-> email,
              token |-> r.token, log |-> dlog \o rlog]

(***************************************************************************)
(* Generation: OpenAIHandler.generate_draft_response.                      *)
(***************************************************************************)
\* What the completion provider may answer: an exception, or a text.
Texts       == {<<" ", "o", "k", " ">>, <<" ">>}
Completions == {[ok |-> FALSE, text |-> <<>>]} \cup {[ok |-> TRUE, text |-> t] : t \in Texts}

\* What the classification call may answer, after strip().lower(): an
\* exception, a known label, or anything else.
Classifications ==
    {[ok |-> FALSE, label |-> "-"]} \cup {[ok |-> TRUE, label |-> l] : l \in {"inquiry", "dunno"}}

\* Reading a stored file can only fail when there is one.
ReadChoices(file) == IF file.state = "absent" THEN {TRUE} ELSE BOOLEAN

\* The outcomes of the external calls of one generate_draft_response call:
\* whether the training system imports and constructs, the two file reads,
\* and the three completion calls.
GenInputs(exFile, tmFile) ==
    [available : BOOLEAN, readEx : ReadChoices(exFile), readTm : ReadChoices(tmFile),
     classify : Classifications, custom : Completions, fallback : Completions]

\* The same outcomes without the calls that are never made: no training
\* system, no classification and no customized completion; a usable
\* customized text, no fallback completion.
NoCall == [ok |-> FALSE, text |-> <<>>]

GenCalls(exFile, tmFile) ==
    {in \in GenInputs(exFile, tmFile) :
        /\ ~in.available =>
              /\ in.classify = [ok |-> FALSE, label |-> "-"]
              /\ in.custom = NoCall
              /\ in.readEx /\ in.readTm
        /\ (in.available /\ in.custom.ok /\ Strip(in.custom.text) # <<>>) =>
              in.fallback = NoCall}


NoneDraft  == [some |-> FALSE, text |-> <<>>]
Some(text) == [some |-> TRUE, text |-> text]

Truthy_notnone(d) == d.some

\* `if draft_response:` -- neither None nor the empty string.
Truthy(d) == d.some /\ d.text # <<>>

\* A completion request, with the parts of its prompt that vary, and the
\* provider's answer c to it.
Req(kind, days, email_type, tone, examples, tmpls, c) ==
    [kind |-> kind, days |-> days, email_type |-> email_type, tone |-> tone,
     examples |-> examples, templates |-> tmpls, ok |-> c.ok,
     text |-> IF c.ok /\ kind # "classify" THEN c.text ELSE <<>>]

Completed_unstripped(c) == IF c.ok THEN Some(c.text) ELSE NoneDraft

\* response.choices[0].message.content.strip(), or None on an exception.
Completed(c) == IF c.ok THEN Some(Strip(c.text)) ELSE NoneDraft

\* TrainingSystem.analyze_email_type.
analyze_email_type(c) == IF c.ok THEN c.label ELSE "general"

\* Lines 258-303: the prompt of the default response generation.
FallbackKind(days_old) == IF days_old = 0 THEN "same_day" ELSE "apology"

generate_draft_response_onempty(email, t, exFile, tmFile, in) ==
    LET days_old   == DaysOf(t - email.received_date.t)
        email_type == analyze_email_type(in.classify)
        blocks     == SelectBlocks(LoadFile(exFile, in.readEx),
                                   LoadFile(tmFile, in.readTm),
                                   email_type, "professional")
        custom     == Completed(in.custom)
        creqs      == <<Req("classify", 0, None, None, <<>>, <<>>, in.classify),
                        Req("customized", days_old, email_type, "professional",
                            blocks.examples, blocks.templates, in.custom)>>
        freqs      == <<Req(FallbackKind(days_old), days_old, None, None,
                            <<>>, <<>>, in.fallback)>>
        trained    == in.available /\ blocks # NoContext
    IN  IF email.received_date.aware
           THEN [draft |-> NoneDraft, requests |-> <<>>]
        ELSE IF trained /\ Truthy(custom)
           THEN [draft |-> custom, requests |-> creqs]
        ELSE [draft |-> Completed(in.fallback),
              requests |-> (IF in.available THEN creqs ELSE <<>>) \o freqs]

generate_draft_response_retry(email, t, exFile, tmFile, in) ==
    LET days_old   == DaysOf(t - email.received_date.t)
        email_type == analyze_email_type(in.classify)
        blocks     == SelectBlocks(LoadFile(exFile, in.readEx),
                                   LoadFile(tmFile, in.readTm),
                                   email_type, "professional")
        custom     == Completed(in.custom)
        creqs      == <<Req("classify", 0, None, None, <<>>, <<>>, in.classify),
                        Req("customized", days_old, email_type, "professional",
                            blocks.examples, blocks.templates, in.custom)>>
        freqs      == <<Req(FallbackKind(days_old), days_old, None, None,
                            <<>>, <<>>, in.fallback)>>
        again      == IF in.fallback.ok THEN <<>> ELSE freqs
    IN  IF email.received_date.aware
           THEN [draft |-> NoneDraft, requests |-> <<>>]
        ELSE IF in.available /\ Truthy(custom)
           THEN [draft |-> custom, requests |-> creqs]
        ELSE [draft |-> Completed(in.fallback),
              requests |-> (IF in.available THEN creqs ELSE <<>>) \o freqs
                           \o again]

\* OpenAIHandler.generate_draft_response(email) at time t.  Subtracting an
\* aware received_date from the naive datetime.now() raises TypeError,
\* which the outer except turns into None.
generate_draft_response(email, t, exFile, tmFile, in) ==
    LET days_old   == DaysOf(t - email.received_date.t)
        email_type == analyze_email_type(in.classify)
        blocks     == SelectBlocks(LoadFile(exFile, in.readEx),
                                   LoadFile(tmFile, in.readTm),
                                   email_type, "professional")
        custom     == Completed(in.custom)
        creqs      == <<Req("classify", 0, None, None, <<>>, <<>>, in.classify),
                        Req("customized", days_old, email_type, "professional",
                            blocks.examples, blocks.templates, in.custom)>>
        freqs      == <<Req(FallbackKind(days_old), days_old, None, None,
                            <<>>, <<>>, in.fallback)>>
    IN  IF email.received_date.aware
           THEN [draft |-> NoneDraft, requests |-> <<>>]
        ELSE IF in.available /\ Truthy(custom)
           THEN [draft |-> custom, requests |-> creqs]
        ELSE [draft |-> Completed(in.fallback),
              requests |-> (IF in.available THEN creqs ELSE <<>>) \o freqs]

\* The completion calls of a generation, as logged in calls.
GenLog(id, requests) ==
    [i \in 1..Len(requests) |->
        Entry("complete", id, requests[i].kind, requests[i].days, requests[i].ok)]

NoGen == [id |-> "-", draft |-> NoneDraft, requests |-> <<>>]

(***************************************************************************)
(* process_emails.                                                         *)
(***************************************************************************)
NoResult    == [success |-> FALSE, processed_count |-> 0, errors |-> <<>>,
                message |-> "none"]
FreshResult == [success |-> FALSE, processed_count |-> 0, errors |-> <<>>,
                message |-> ""]

NoEmails_unflagged(res) == [res EXCEPT !.message = "no_emails"]

\* Lines 351-354, reached with an empty candidate list.
NoEmails(res) == [res EXCEPT !.success = TRUE, !.message = "no_emails"]

Draft_norecipient(subject, body, to, reply_to) ==
    [subject |-> subject, body |-> body, to |-> <<>>, reply_to |-> reply_to]

\* The draft that create_draft posts (lines 186-199).
Draft(subject, body, to, reply_to) ==
    [subject |-> subject, body |-> body, to |-> to, reply_to |-> reply_to]

passive == UNCHANGED <<gateVars, trainVars>>

StartScan_continues ==
    /\ pc = "idle"
    /\ left > 0
    /\ \E authOk \in BOOLEAN :
        /\ left' = left - 1
        /\ calls' = <<Entry("authenticate", "-", "-", 0, authOk)>>
        /\ access_token' = authenticate(Tok, now, authOk).present
        /\ token_expires' = authenticate(Tok, now, authOk).expires
        /\ pc' = "fetch"
        /\ result' = IF authOk THEN FreshResult
                     ELSE [FreshResult EXCEPT !.message = "auth_failed"]
        /\ fetched' = <<>>
        /\ threshold_date' = 0
        /\ emails' = <<>>
        /\ idx' = 1
        /\ processed_count' = 0
        /\ last_gen' = NoGen
        /\ UNCHANGED <<mailVars, confVars>>
        /\ passive

\* Lines 333-346: a new invocation; authenticate.
StartScan ==
    /\ pc = "idle"
    /\ left > 0
    /\ \E authOk \in BOOLEAN :
        /\ left' = left - 1
        /\ calls' = <<Entry("authenticate", "-", "-", 0, authOk)>>
        /\ access_token' = authenticate(Tok, now, authOk).present
        /\ token_expires' = authenticate(Tok, now, authOk).expires
        /\ pc' = IF authOk THEN "fetch" ELSE "idle"
        /\ result' = IF authOk THEN FreshResult
                     ELSE [FreshResult EXCEPT !.message = "auth_failed"]
        /\ fetched' = <<>>
        /\ threshold_date' = 0
        /\ emails' = <<>>
        /\ idx' = 1
        /\ processed_count' = 0
        /\ last_gen' = NoGen
        /\ UNCHANGED <<mailVars, confVars>>
        /\ passive

\* Lines 83-101: the listing request of get_emails_needing_replies.  The
\* provider answers with the messages received since the cutoff, newest
\* first, at most FETCH_TOP of them.
ListMessages ==
    /\ pc = "fetch"
    /\ \E authOk \in AuthOutcomes(TRUE, Tok), reqOk \in BOOLEAN :
        LET cutoff_date == now - timedelta(LOOKBACK_DAYS)
            r == Send(Tok, now, authOk, reqOk)
            value == Take(SelectSeq(messages,
                             LAMBDA m : m.receivedDateTime.t >= cutoff_date),
                          FETCH_TOP)
        IN  /\ calls' = SendLog(r, "list_messages", "-", "-")
            /\ access_token' = r.token.present
            /\ token_expires' = r.token.expires
            /\ fetched' = IF r.ok THEN value ELSE <<>>
            /\ threshold_date' = IF r.ok THEN now - timedelta(days_threshold) ELSE 0
            /\ pc' = IF r.ok THEN "intake" ELSE "idle"
            /\ result' = IF r.ok THEN result ELSE NoEmails(result)
            /\ UNCHANGED <<mailVars, confVars, left, emails, idx, processed_count,
                           last_gen>>
            /\ passive

IntakeItem_marks ==
    /\ pc = "intake"
    /\ idx <= Len(fetched)
    /\ LET email  == ParseItem(fetched[idx])
           asked1 == /\ ~email.received_date.aware
                     /\ InWindow(email.received_date, threshold_date)
       IN  \E authOk1 \in AuthOutcomes(asked1, Tok), draftsOk \in Outcomes(asked1) :
           LET d      == Send(Tok, now, authOk1, draftsOk)
               asked2 == asked1 /\ ~check_for_draft_response(email.id, d)
           IN  \E authOk2 \in AuthOutcomes(asked2, d.token),
                  repliesOk \in Outcomes(asked2) :
               LET o == IntakeOne(fetched[idx], authOk1, draftsOk, authOk2, repliesOk)
               IN  /\ calls' = o.log
                   /\ access_token' = o.token.present
                   /\ token_expires' = o.token.expires
                   /\ emails' = IF o.raised THEN <<>>
                                ELSE IF o.keep THEN Append(emails, o.email)
                                ELSE emails
                   /\ idx' = IF o.raised THEN 1 ELSE idx + 1
                   /\ pc' = IF o.raised THEN "idle" ELSE "intake"
                   /\ result' = IF o.raised THEN NoEmails(result) ELSE result
    /\ messages' = [i \in DOMAIN messages |->
                        IF messages[i].id = fetched[idx].id
                           THEN [messages[i] EXCEPT !.isRead = TRUE]
                           ELSE messages[i]]
    /\ UNCHANGED <<drafts, now, confVars, left, fetched, threshold_date,
                   processed_count, last_gen>>
    /\ passive

\* Lines 103-124: one item of the response.  The detector requests have an
\* outcome only when they are made.
IntakeItem ==
    /\ pc = "intake"
    /\ idx <= Len(fetched)
    /\ LET email  == ParseItem(fetched[idx])
           asked1 == /\ ~email.received_date.aware
                     /\ InWindow(email.received_date, threshold_date)
       IN  \E authOk1 \in AuthOutcomes(asked1, Tok), draftsOk \in Outcomes(asked1) :
           LET d      == Send(Tok, now, authOk1, draftsOk)
               asked2 == asked1 /\ ~check_for_draft_response(email.id, d)
           IN  \E authOk2 \in AuthOutcomes(asked2, d.token),
                  repliesOk \in Outcomes(asked2) :
               LET o == IntakeOne(fetched[idx], authOk1, draftsOk, authOk2, repliesOk)
               IN  /\ calls' = o.log
                   /\ access_token' = o.token.present
                   /\ token_expires' = o.token.expires
                   /\ emails' = IF o.raised THEN <<>>
                                ELSE IF o.keep THEN Append(emails, o.email)
                                ELSE emails
                   /\ idx' = IF o.raised THEN 1 ELSE idx + 1
                   /\ pc' = IF o.raised THEN "idle" ELSE "intake"
                   /\ result' = IF o.raised THEN NoEmails(result) ELSE result
    /\ UNCHANGED <<mailVars, confVars, left, fetched, threshold_date,
                   processed_count, last_gen>>
    /\ passive

\* Lines 126-127 and 351-356: the candidate list is returned.
IntakeDone ==
    /\ pc = "intake"
    /\ idx > Len(fetched)
    /\ pc' = IF emails = <<>> THEN "idle" ELSE "process"
    /\ result' = IF emails = <<>> THEN NoEmails(result) ELSE result
    /\ idx' = 1
    /\ processed_count' = 0
    /\ calls' = <<>>
    /\ UNCHANGED <<mailVars, confVars, tokenVars, left, fetched, threshold_date,
                   emails, last_gen>>
    /\ passive

ProcessEmail_silent ==
    /\ pc = "process"
    /\ idx <= Len(emails)
    /\ idx' = idx + 1
    /\ LET email   == emails[idx]
           subject == <<"Re: ">> \o email.subject
       IN  IF ~should_process_email(allowed_domains, email.sender)
              THEN /\ last_gen' = NoGen
                   /\ calls' = <<>>
                   /\ UNCHANGED <<drafts, tokenVars, processed_count, result>>
           ELSE \E in \in GenCalls(training_file, templates_file) :
                LET g == generate_draft_response(email, now, training_file,
                                                 templates_file, in)
                    glog == GenLog(email.id, g.requests)
                IN  /\ last_gen' = [id |-> email.id, draft |-> g.draft,
                                     requests |-> g.requests]
                    /\ IF ~Truthy(g.draft)
                          THEN /\ calls' = glog
                               /\ result' = [result EXCEPT !.errors =
                                     Append(@, [what |-> "generate",
                                                ref |-> email.subject])]
                               /\ UNCHANGED <<drafts, tokenVars, processed_count>>
                       ELSE \E authOk \in AuthOutcomes(TRUE, Tok), createOk \in BOOLEAN :
                            LET c == Send(Tok, now, authOk, createOk)
                                clog == SendLog(c, "create_draft", email.id, "-")
                            IN  /\ calls' = glog \o clog
                                /\ access_token' = c.token.present
                                /\ token_expires' = c.token.expires
                                /\ drafts' = IF c.ok
                                      THEN <<Draft(subject, g.draft.text,
                                                   <<email.sender>>, email.id)>>
                                           \o drafts
                                      ELSE drafts
                                /\ processed_count' = IF c.ok THEN processed_count + 1
                                                      ELSE processed_count
                                /\ result' = result
    /\ UNCHANGED <<messages, now, confVars, pc, left, fetched, threshold_date,
                   emails>>
    /\ passive

\* Lines 357-389: one pass of the for loop of process_emails.
ProcessEmail ==
    /\ pc = "process"
    /\ idx <= Len(emails)
    /\ idx' = idx + 1
    /\ LET email   == emails[idx]
           subject == <<"Re: ">> \o email.subject
       IN  IF ~should_process_email(allowed_domains, email.sender)
              THEN /\ last_gen' = NoGen
                   /\ calls' = <<>>
                   /\ UNCHANGED <<drafts, tokenVars, processed_count, result>>
           ELSE \E in \in GenCalls(training_file, templates_file) :
                LET g == generate_draft_response(email, now, training_file,
                                                 templates_file, in)
                    glog == GenLog(email.id, g.requests)
                IN  /\ last_gen' = [id |-> email.id, draft |-> g.draft,
                                     requests |-> g.requests]
                    /\ IF ~Truthy(g.draft)
                          THEN /\ calls' = glog
                               /\ result' = [result EXCEPT !.errors =
                                     Append(@, [what |-> "generate",
                                                ref |-> email.subject])]
                               /\ UNCHANGED <<drafts, tokenVars, processed_count>>
                       ELSE \E authOk \in AuthOutcomes(TRUE, Tok), createOk \in BOOLEAN :
                            LET c == Send(Tok, now, authOk, createOk)
                                clog == SendLog(c, "create_draft", email.id, "-")
                            IN  /\ calls' = glog \o clog
                                /\ access_token' = c.token.present
                                /\ token_expires' = c.token.expires
                                /\ drafts' = IF c.ok
                                      THEN <<Draft(subject, g.draft.text,
                                                   <<email.sender>>, email.id)>>
                                           \o drafts
                                      ELSE drafts
                                /\ processed_count' = IF c.ok THEN processed_count + 1
                                                      ELSE processed_count
                                /\ result' = IF c.ok THEN result
                                      ELSE [result EXCEPT !.errors =
                                         Append(@, [what |-> "create",
                                                    ref |-> email.subject])]
    /\ UNCHANGED <<messages, now, confVars, pc, left, fetched, threshold_date,
                   emails>>
    /\ passive

\* Lines 391-393 and 400: the loop is over.
FinishScan ==
    /\ pc = "process"
    /\ idx > Len(emails)
    /\ pc' = "idle"
    /\ result' = [result EXCEPT !.success = TRUE,
                                !.processed_count = processed_count,
                                !.message = "completed"]
    /\ calls' = <<>>
    /\ last_gen' = NoGen
    /\ UNCHANGED <<mailVars, confVars, tokenVars, left, fetched, threshold_date,
                   emails, idx, processed_count>>
    /\ passive

\* The clock advances.
Tick ==
    /\ now < MaxTicks
    /\ now' = now + 1
    /\ calls' = <<>>
    /\ last_gen' = NoGen
    /\ UNCHANGED <<messages, drafts, confVars, tokenVars, pc, left, fetched,
                   threshold_date, emails, idx, processed_count, result>>
    /\ passive

(***************************************************************************)
(* Scheduled integration (outlook_openai_integration.py): one cycle of     *)
(* process_emails over the unread messages of the folder.                  *)
(***************************************************************************)
MAX_EMAILS == 10    \* os.getenv('MAX_EMAILS_PER_SCAN', 10)

\* The unread messages of the folder, newest first, at most max_count.
unread_only(msgs, max_count) ==
    Take(SelectSeq(msgs, LAMBDA m : ~m.isRead), max_count)

\* MicrosoftGraphAPI.mark_as_read: the PATCH sets isRead when it succeeds;
\* a failure is logged and False returned.
mark_as_read(msgs, email_id, ok) ==
    [i \in DOMAIN msgs |->
        IF ok /\ msgs[i].id = email_id THEN [msgs[i] EXCEPT !.isRead = TRUE]
        ELSE msgs[i]]

\* Lines 237-244: a new cycle; authenticate, return when that fails.
CycleStart ==
    /\ pc = "idle"
    /\ left > 0
    /\ \E authOk \in BOOLEAN :
        /\ left' = left - 1
        /\ calls' = <<Entry("authenticate", "-", "-", 0, authOk)>>
        /\ access_token' = authenticate(Tok, now, authOk).present
        /\ token_expires' = authenticate(Tok, now, authOk).expires
        /\ pc' = IF authOk THEN "fetch" ELSE "idle"
        /\ fetched' = <<>>
        /\ emails' = <<>>
        /\ idx' = 1
        /\ processed_count' = 0
        /\ last_gen' = NoGen
        /\ UNCHANGED <<mailVars, confVars, threshold_date, result>>
        /\ passive

\* Lines 246-255 and get_emails (lines 92-123) with unread_only=True: the
\* empty list when the request fails.
GetEmails ==
    /\ pc = "fetch"
    /\ \E authOk \in AuthOutcomes(TRUE, Tok), reqOk \in BOOLEAN :
        LET r == Send(Tok, now, authOk, reqOk)
            value == unread_only(messages, MAX_EMAILS)
            list  == IF r.ok THEN [i \in DOMAIN value |-> ParseItem(value[i])]
                     ELSE <<>>
        IN  /\ calls' = SendLog(r, "list_unread", "-", "-")
            /\ access_token' = r.token.present
            /\ token_expires' = r.token.expires
            /\ fetched' = IF r.ok THEN value ELSE <<>>
            /\ emails' = list
            /\ pc' = IF list = <<>> THEN "idle" ELSE "process"
            /\ idx' = 1
            /\ processed_count' = 0
            /\ UNCHANGED <<mailVars, confVars, left, threshold_date, result,
                           last_gen>>
            /\ passive

\* Lines 258-289: one pass of the for loop.  The completion is the single
\* request of this file's generate_draft_response; mark_as_read is called
\* after a created draft and its result is not looked at.
CycleEmail ==
    /\ pc = "process"
    /\ idx <= Len(emails)
    /\ idx' = idx + 1
    /\ LET email   == emails[idx]
           subject == <<"Re: ">> \o email.subject
       IN  IF ~should_process_email(allowed_domains, email.sender)
              THEN /\ last_gen' = NoGen
                   /\ calls' = <<>>
                   /\ UNCHANGED <<messages, drafts, tokenVars, processed_count>>
           ELSE \E answer \in Completions :
                LET draft == Completed(answer)
                    reqs  == <<Req("plain", 0, None, None, <<>>, <<>>, answer)>>
                    glog  == GenLog(email.id, reqs)
                IN  /\ last_gen' = [id |-> email.id, draft |-> draft,
                                     requests |-> reqs]
                    /\ IF ~Truthy(draft)
                          THEN /\ calls' = glog
                               /\ UNCHANGED <<messages, drafts, tokenVars,
                                              processed_count>>
                       ELSE \E authOk \in AuthOutcomes(TRUE, Tok), createOk \in BOOLEAN :
                            LET c == Send(Tok, now, authOk, createOk)
                                clog == SendLog(c, "create_draft", email.id, "-")
                            IN  \E authOk2 \in AuthOutcomes(c.ok, c.token),
                                   markOk \in Outcomes(c.ok) :
                                LET m == Send(c.token, now, authOk2, markOk)
                                    mlog == IF c.ok
                                               THEN SendLog(m, "mark_as_read",
                                                            email.id, "-")
                                               ELSE <<>>
                                    tok  == IF c.ok THEN m.token ELSE c.token
                                IN  /\ calls' = glog \o clog \o mlog
                                    /\ access_token' = tok.present
                                    /\ token_expires' = tok.expires
                                    /\ drafts' = IF c.ok
                                          THEN <<Draft(subject, draft.text,
                                                       <<email.sender>>, email.id)>>
                                               \o drafts
                                          ELSE drafts
                                    /\ messages' = IF c.ok
                                          THEN mark_as_read(messages, email.id, m.ok)
                                          ELSE messages
                                    /\ processed_count' =
                                          IF c.ok THEN processed_count + 1
                                          ELSE processed_count
    /\ UNCHANGED <<now, confVars, pc, left, fetched, threshold_date, emails,
                   result>>
    /\ passive

\* Line 291: the loop is over, the cycle returns.
CycleEnd ==
    /\ pc = "process"
    /\ idx > Len(emails)
    /\ pc' = "idle"
    /\ calls' = <<>>
    /\ last_gen' = NoGen
    /\ UNCHANGED <<mailVars, confVars, tokenVars, left, fetched, threshold_date,
                   emails, idx, processed_count, result>>
    /\ passive

(***************************************************************************)
(* Initial states.                                                         *)
(***************************************************************************)
MaxGenRecords == 1  \* records per training file in SpecGen

\* Provider-assigned identifiers, by position in the mailbox.
MsgIds == <<"m1", "m2", "m3", "m4">>

Message(i, f, zone) ==
    [id |-> MsgIds[i], subject |-> f.subject, sender |-> f.sender,
     receivedDateTime |-> [t |-> 0 - f.age, zone |-> zone], isRead |-> FALSE]

Mailboxes_unordered(Subjects, Senders, Ages, n) ==
    UNION {{[i \in 1..k |-> Message(i, f[i], zone)] :
                f \in [1..k -> [subject : Subjects, sender : Senders, age : Ages]],
                zone \in {"", "Z"}}
           : k \in 0..n}

\* The mailboxes of at most n messages with subjects, senders and ages (at
\* time 0) drawn from the given sets: newest first, every timestamp in the
\* provider's one format (zone "Z": with UTC designator, "": without).
Mailboxes(Subjects, Senders, Ages, n) ==
    UNION {{[i \in 1..k |-> Message(i, f[i], zone)] :
                f \in {g \in [1..k -> [subject : Subjects, sender : Senders,
                                       age : Ages]] :
                          \A i \in 1..(k - 1) : g[i].age <= g[i + 1].age},
                zone \in {"", "Z"}}
           : k \in 0..n}

ReplySubjects == {<<"Re: ", "m1">>, <<"Re: ", "m2">>, <<"RE: ", "m2">>}

\* A draft that is not about any message of the mailbox.
Note == Draft(<<"Note">>, <<"o", "k">>, <<>>, "-")

\* A draft left by an earlier run whose subject holds the identifier m1.
OldDraft == Draft(<<"Re: ", "m1">>, <<"o", "k">>, <<>>, "m1")

\* A draft that names m2 in the middle of its subject.
OldNote == Draft(<<"Note", "m2", "Note">>, <<"o", "k">>, <<>>, "-")

\* Nothing in the mailbox, no invocation to come: the scan state of the
\* specifications that are not about the scan.
ScanIdle ==
    /\ messages = <<>>
    /\ drafts = <<>>
    /\ now = 0
    /\ days_threshold = DEFAULT_DAYS_THRESHOLD
    /\ allowed_domains = <<>>
    /\ access_token = FALSE
    /\ token_expires = 0
    /\ pc = "idle"
    /\ left = 0
    /\ fetched = <<>>
    /\ threshold_date = 0
    /\ emails = <<>>
    /\ idx = 1
    /\ processed_count = 0
    /\ result = NoResult
    /\ calls = <<>>
    /\ last_gen = NoGen

\* A freshly constructed OutlookOpenAIIntegration, before its first
\* invocation.
Constructed ==
    /\ now = 0
    /\ access_token = FALSE
    /\ token_expires = 0
    /\ pc = "idle"
    /\ fetched = <<>>
    /\ threshold_date = 0
    /\ emails = <<>>
    /\ idx = 1
    /\ processed_count = 0
    /\ result = NoResult
    /\ calls = <<>>
    /\ last_gen = NoGen

\* One invocation over any mailbox: messages older and newer than the
\* threshold, replies, an earlier draft, with and without a domain
\* allow-list; no training data.
Init ==
    /\ GateIdle
    /\ TrainInit
    /\ Constructed
    /\ left = 1
    /\ messages \in Mailboxes({<<"Hello">>} \cup ReplySubjects,
                              {<<"x", "@", "a">>},
                              {0 - 1, timedelta(3), timedelta(DEFAULT_DAYS_THRESHOLD)},
                              MaxMsgs)
    /\ drafts \in {<<>>, <<OldDraft>>}
    /\ days_threshold = DEFAULT_DAYS_THRESHOLD
    /\ allowed_domains \in {ParseAllowedDomains(<<>>), ParseAllowedDomains(<<"c">>)}

\* One invocation over recent messages and a Drafts folder of any length
\* up to DRAFT_TOP + 1, the earlier draft at any position in it.
DraftsInit ==
    /\ GateIdle
    /\ TrainInit
    /\ Constructed
    /\ left = 1
    /\ messages \in Mailboxes({<<"Hello">>}, {<<"x", "@", "a">>},
                              {timedelta(3)}, MaxMsgs)
    /\ drafts \in {[i \in 1..n |-> Note] : n \in {0, 1, DRAFT_TOP}}
                  \cup {[i \in 1..n |-> Note] \o <<d>> \o [i \in 1..k |-> Note] :
                           n \in {0, DRAFT_TOP - 1, DRAFT_TOP}, k \in {0, 1},
                           d \in {OldDraft, OldNote}}
    /\ days_threshold = DEFAULT_DAYS_THRESHOLD
    /\ allowed_domains = ParseAllowedDomains(<<>>)

\* One invocation over one message of any age, with any training data of
\* at most MaxGenRecords records per file.
GenInit ==
    /\ GateIdle
    /\ training_file \in {NoFile, CorruptFile}
                            \cup {FileOf(d) : d \in ExampleStores(MaxGenRecords)}
    /\ templates_file \in {NoFile} \cup {FileOf(d) : d \in TemplateStores(MaxGenRecords)}
    /\ training_examples = <<>>
    /\ templates = <<>>
    /\ ts_up = FALSE
    /\ query = NoQuery
    /\ context = NoContext
    /\ Constructed
    /\ left = 1
    /\ messages \in {mb \in Mailboxes({<<"Hello">>}, {<<"x", "@", "a">>},
                                      {0 - 1, 0, 1, timedelta(3),
                                       timedelta(DEFAULT_DAYS_THRESHOLD)}, 1) :
                        Len(mb) = 1}
    /\ drafts = <<>>
    /\ days_threshold = DEFAULT_DAYS_THRESHOLD
    /\ allowed_domains = <<>>

\* Two invocations in a row over a mailbox of recent messages.
RerunInit ==
    /\ GateIdle
    /\ TrainInit
    /\ Constructed
    /\ left = 2
    /\ messages \in Mailboxes({<<"Hello">>, <<"Re: ", "m1">>},
                              {<<"x", "@", "a">>},
                              {0, timedelta(3)}, MaxMsgs)
    /\ drafts = <<>>
    /\ days_threshold = DEFAULT_DAYS_THRESHOLD
    /\ allowed_domains = ParseAllowedDomains(<<>>)

\* One invocation over one message, with training files that are absent,
\* readable or damaged.
LoadInit ==
    /\ GateIdle
    /\ training_file \in {NoFile}
          \cup {FileOf(d) : d \in ExampleStores(MaxGenRecords)}
          \cup {BadFileOf(d) : d \in ExampleStores(MaxGenRecords)}
    /\ templates_file \in {NoFile}
          \cup {FileOf(d) : d \in TemplateStores(MaxGenRecords)}
          \cup {BadFileOf(d) : d \in TemplateStores(MaxGenRecords)}
    /\ training_examples = <<>>
    /\ templates = <<>>
    /\ ts_up = FALSE
    /\ query = NoQuery
    /\ context = NoContext
    /\ Constructed
    /\ left = 1
    /\ messages \in {mb \in Mailboxes({<<"Hello">>}, {<<"x", "@", "a">>},
                                      {timedelta(3)}, 1) : Len(mb) = 1}
    /\ drafts = <<>>
    /\ days_threshold = DEFAULT_DAYS_THRESHOLD
    /\ allowed_domains = <<>>

\* One invocation with DAYS_THRESHOLD = 0 over messages received up to a
\* day before time 0, their timestamps without UTC designator.
ZeroInit ==
    /\ GateIdle
    /\ TrainInit
    /\ Constructed
    /\ left = 1
    /\ messages \in {mb \in Mailboxes({<<"Hello">>}, {<<"x", "@", "a">>},
                                      0..timedelta(1), MaxMsgs) :
                        \A i \in DOMAIN mb : mb[i].receivedDateTime.zone = ""}
    /\ drafts = <<>>
    /\ days_threshold = 0
    /\ allowed_domains = <<>>

\* One invocation over recent messages from senders inside and outside the
\* allow-list.
SendersInit ==
    /\ GateIdle
    /\ TrainInit
    /\ Constructed
    /\ left = 1
    /\ messages \in {mb \in Mailboxes({<<"Hello">>},
                                      {<<"x", "@", "a">>, <<"x", "@", "c">>},
                                      {timedelta(3)}, MaxMsgs) :
                        \A i \in DOMAIN mb : mb[i].receivedDateTime.zone = ""}
    /\ drafts = <<>>
    /\ days_threshold = DEFAULT_DAYS_THRESHOLD
    /\ allowed_domains = ParseAllowedDomains(<<"c">>)

\* One invocation with DAYS_THRESHOLD at its default or one day longer than
\* the lookback, over messages received three days ago or just before the
\* lookback cutoff.
WideInit ==
    /\ GateIdle
    /\ TrainInit
    /\ Constructed
    /\ left = 1
    /\ messages \in {mb \in Mailboxes({<<"Hello">>}, {<<"x", "@", "a">>},
                                      {timedelta(3), timedelta(LOOKBACK_DAYS) + 1},
                                      MaxMsgs) :
                        \A i \in DOMAIN mb : mb[i].receivedDateTime.zone = ""}
    /\ drafts = <<>>
    /\ days_threshold \in {DEFAULT_DAYS_THRESHOLD, LOOKBACK_DAYS + 1}
    /\ allowed_domains = <<>>

\* The scheduled integration before its first cycle, two cycles to come,
\* over a folder of read and unread messages.
SchedInit ==
    /\ GateIdle
    /\ TrainInit
    /\ Constructed
    /\ left = 2
    /\ messages \in UNION {{[i \in DOMAIN mb |-> [mb[i] EXCEPT !.isRead = r[i]]] :
                                r \in [DOMAIN mb -> BOOLEAN]} :
                            mb \in {b \in Mailboxes({<<"Hello">>}, {<<"x", "@", "a">>},
                                                    {timedelta(3)}, MaxMsgs) :
                                      \A i \in DOMAIN b :
                                          b[i].receivedDateTime.zone = "Z"}}
    /\ drafts = <<>>
    /\ days_threshold = DEFAULT_DAYS_THRESHOLD
    /\ allowed_domains = <<>>

(***************************************************************************)
(* Specifications.                                                         *)
(***************************************************************************)
InitGate == GateInit /\ TrainInit /\ ScanIdle

SpecGate == InitGate /\ [][GateCheck]_vars

InitSelect == GateIdle /\ SelectInit /\ ScanIdle

SpecSelect == InitSelect /\ [][SelectContext]_vars

InitStore == GateIdle /\ TrainInit /\ ScanIdle

StoreNext ==
    \/ TrainingSystemInit
    \/ add_training_example
    \/ add_response_template

SpecStore == InitStore /\ [][StoreNext]_vars

Next ==
    \/ StartScan
    \/ ListMessages
    \/ IntakeItem
    \/ IntakeDone
    \/ ProcessEmail
    \/ FinishScan
    \/ Tick

Spec == Init /\ [][Next]_vars

SpecGen == GenInit /\ [][Next]_vars

SpecRerun == RerunInit /\ [][Next]_vars

SpecDrafts == DraftsInit /\ [][Next]_vars

SpecLoad == LoadInit /\ [][Next]_vars

SpecZero == ZeroInit /\ [][Next]_vars

SpecSenders == SendersInit /\ [][Next]_vars

SpecWide == WideInit /\ [][Next]_vars

SchedNext ==
    \/ CycleStart
    \/ GetEmails
    \/ CycleEmail
    \/ CycleEnd
    \/ Tick

SpecSched == SchedInit /\ [][SchedNext]_vars

(***************************************************************************)
(* Properties.                                                             *)
(***************************************************************************)
\* The i-th smallest element of a finite set of numbers.
KthOf(S, i) == CHOOSE p \in S : Cardinality({q \in S : q <= p}) = i

\* The part of an address after its last "@"; the whole address if it has none.
AfterLastAt(sender) ==
    LET ats == {k \in 1..Len(sender) : sender[k] = "@"}
        cut == IF ats = {} THEN 0 ELSE CHOOSE k \in ats : \A j \in ats : j <= k
    IN  SubSeq(sender, cut + 1, Len(sender))

\* C6 as stated: should_process_email returns true iff the allow-list is
\* empty/unset or the substring of the sender address after '@' is exactly
\* equal to one allow-list entry.
C6_GateAsStated ==
    gate_called =>
        (gate_result <=>
            \/ ParseAllowedDomains(gate_env) = <<>>
            \/ \E k \in 1..Len(gate_sender) :
                  /\ gate_sender[k] = "@"
                  /\ \E i \in 1..Len(ParseAllowedDomains(gate_env)) :
                        SubSeq(gate_sender, k + 1, Len(gate_sender))
                            = ParseAllowedDomains(gate_env)[i])

\* C6 amended: should_process_email is total and returns true iff the
\* allow-list is empty/unset or the part of the sender address after its last
\* '@' (the whole address when it holds no '@') is exactly, case-sensitively,
\* equal to one allow-list entry; it changes neither the allow-list nor the
\* address.
C6_DomainGate ==
    /\ gate_result \in BOOLEAN
    /\ gate_called =>
        (gate_result <=>
            \/ ParseAllowedDomains(gate_env) = <<>>
            \/ \E i \in 1..Len(ParseAllowedDomains(gate_env)) :
                  AfterLastAt(gate_sender) = ParseAllowedDomains(gate_env)[i])

\* C6 witness: allow-list [a, b], sender x@a, accepted.
C6_Witness ==
    /\ gate_called
    /\ gate_env = <<"a", ",", "b">>
    /\ gate_sender = <<"x", "@", "a">>
    /\ gate_result

\* The storage positions of the examples a query selects.
MatchingExamples ==
    {p \in 1..Len(training_examples) :
        /\ query.email_type # None
              => training_examples[p].email_type = query.email_type
        /\ query.tone # None => training_examples[p].tone = query.tone}

\* C7: get_training_context(type, tone) renders exactly the first min(5, m)
\* examples, in storage order, of the m stored examples whose type equals
\* the given type (when given) and whose tone equals the given tone (when
\* given); with m = 0 the block is empty, never the unfiltered examples.
C7_ExamplesBlock ==
    query # NoQuery =>
        /\ Len(context.examples) = Min(MAX_EXAMPLES, Cardinality(MatchingExamples))
        /\ \A i \in 1..Len(context.examples) :
              /\ context.examples[i].n = i
              /\ context.examples[i].example
                    = training_examples[KthOf(MatchingExamples, i)]

\* C7 witness: six inquiry/professional examples and two others, asked for
\* (inquiry, professional): five records come back.
C7_Witness ==
    /\ query = [email_type |-> "inquiry", tone |-> "professional"]
    /\ Cardinality(MatchingExamples) = 6
    /\ Len(training_examples) = 8
    /\ Len(context.examples) = 5

\* The storage positions of the templates a query selects.
MatchingTemplates ==
    {p \in 1..Len(templates) :
        query.email_type # None => templates[p].email_type = query.email_type}

\* C8: get_template_context(type) renders exactly the first min(3, m)
\* templates, in storage order, of the m stored templates whose type equals
\* the given type (all templates when none is given), whatever the tone of
\* the request; the block is empty when m = 0.
C8_TemplatesBlock ==
    query # NoQuery =>
        /\ Len(context.templates) = Min(MAX_TEMPLATES, Cardinality(MatchingTemplates))
        /\ \A i \in 1..Len(context.templates) :
              context.templates[i] = templates[KthOf(MatchingTemplates, i)]

\* C8 witness: four inquiry templates of tone friendly, asked for with tone
\* professional: three of them come back.
C8_Witness ==
    /\ query = [email_type |-> "inquiry", tone |-> "professional"]
    /\ Cardinality(MatchingTemplates) = 4
    /\ Len(context.templates) = 3
    /\ \A i \in 1..3 : context.templates[i].tone = "friendly"

(***************************************************************************)
(* Properties of the scan.                                                 *)
(***************************************************************************)
\* The listed message with the identifier id.
Listed(id) == CHOOSE m \in Range(fetched) : m.id = id

\* The identifiers of the candidates.
CandidateIds == {emails[i].id : i \in DOMAIN emails}

\* The calls of the last step to the operation op.
CallsOf(op) == {k \in DOMAIN calls : calls[k].op = op}

\* The subject names the identifier.
Names(subject, id) == \E k \in DOMAIN subject : subject[k] = id

\* One of the first n drafts of the folder names the identifier.
DraftNaming(id, n) ==
    \E i \in 1..Min(Len(drafts), n) : Names(drafts[i].subject, id)

\* The mailbox holds a message "Re: id" or "RE: id" received after t.
LaterReply(id, t) ==
    \E i \in DOMAIN messages :
        /\ messages[i].subject \in {<<"Re: ", id>>, <<"RE: ", id>>}
        /\ messages[i].receivedDateTime.t > t

\* C1 (as stated): every draft a run created is matched by the Duplicate
\* Detector for the email it answers, so that a later run over the same
\* mailbox leaves that email out and no email is answered by two drafts.
C1_Idempotent ==
    /\ \A k \in CallsOf("list_drafts") :
          (/\ calls[k].ok
           /\ \E i \in 1..Min(Len(drafts), DRAFT_TOP) :
                 drafts[i].reply_to = calls[k].id)
             => calls[k].info = "found" /\ calls[k].id \notin CandidateIds
    /\ \A i, j \in DOMAIN drafts :
          (i # j /\ drafts[i].reply_to # "-") => drafts[i].reply_to # drafts[j].reply_to

\* C2 (as stated, its date and domain conditions): an email reaches the
\* generation step only if its received date lies between the threshold
\* date of the scan and now, and its sender passes the allow-list.
C2_Eligibility ==
    last_gen.id # "-" =>
        LET m == Listed(last_gen.id)
        IN  /\ threshold_date <= m.receivedDateTime.t
            /\ m.receivedDateTime.t <= now
            /\ \/ allowed_domains = <<>>
               \/ \E i \in DOMAIN allowed_domains :
                     allowed_domains[i] = AfterLastAt(m.sender)

\* The intake of the scan is over: the candidate list was returned, or the
\* listing was answered and intake returned the empty list.
IntakeOver ==
    \/ pc = "process"
    \/ pc = "idle" /\ result.message = "no_emails" /\ fetched # <<>>

\* C3 (as stated): once intake is over, a listed email received before
\* the threshold date is no candidate, and one received at or after it is
\* not excluded on age grounds: it is a candidate unless a draft names it
\* or a later reply to it exists.
C3_Threshold ==
    IntakeOver =>
        \A i \in DOMAIN fetched :
            LET m == fetched[i]
            IN  /\ m.receivedDateTime.t < threshold_date => m.id \notin CandidateIds
                /\ (/\ m.receivedDateTime.t >= threshold_date
                    /\ ~DraftNaming(m.id, Len(drafts))
                    /\ ~LaterReply(m.id, m.receivedDateTime.t))
                      => m.id \in CandidateIds

\* C4 (as stated): whenever some draft of the folder, however long the
\* folder, names the email in its subject, the Duplicate Detector reports
\* a draft for it.
C4_AnyDraft ==
    \A k \in CallsOf("list_drafts") :
        (calls[k].ok /\ DraftNaming(calls[k].id, Len(drafts)))
            => calls[k].info = "found"

\* C4 (amended): when the draft query is answered, the Duplicate Detector
\* reports a draft for the email exactly when one of the first DRAFT_TOP
\* drafts names it in its subject; the email is then no candidate, and no
\* reply query, completion call or draft creation is made for it; the
\* completion calls and draft creations of a scan are for candidates only.
C4_DraftDetection ==
    /\ \A k \in CallsOf("list_drafts") :
          calls[k].ok =>
            /\ calls[k].info = "found" <=> DraftNaming(calls[k].id, DRAFT_TOP)
            /\ calls[k].info = "found" =>
                  /\ calls[k].id \notin CandidateIds
                  /\ \A j \in DOMAIN calls :
                        calls[j].id = calls[k].id => calls[j].op = "list_drafts"
    /\ \A k \in CallsOf("complete") \cup CallsOf("create_draft") :
          calls[k].id \in CandidateIds

\* C4: the detector finds the draft in a folder of DRAFT_TOP drafts or more.
C4_Witness ==
    \E k \in CallsOf("list_drafts") :
        /\ calls[k].ok
        /\ calls[k].info = "found"
        /\ Len(drafts) >= DRAFT_TOP

\* C5 (as stated): no email of the window to which a later reply exists is
\* a candidate.
C5_AsStated ==
    pc = "process" =>
        \A i \in DOMAIN emails :
            ~LaterReply(emails[i].id, emails[i].received_date.t)

\* C5 (amended): when the Reply Detector is run for an email (the email is
\* in the window and no draft was detected for it) and its query is
\* answered, it reports a reply exactly when the mailbox holds a message
\* "Re: id" or "RE: id" received strictly after the email; the email is a
\* candidate exactly when it reports none.
C5_ReplyDetection ==
    \A k \in CallsOf("list_replies") :
        calls[k].ok =>
            LET m == Listed(calls[k].id)
            IN  /\ m.receivedDateTime.t >= threshold_date
                /\ calls[k].info = "found"
                      <=> LaterReply(m.id, m.receivedDateTime.t)
                /\ calls[k].info = "found" <=> m.id \notin CandidateIds

\* C5: the detector reports a reply, and the email is left out.
C5_Witness ==
    \E k \in CallsOf("list_replies") :
        /\ calls[k].ok
        /\ calls[k].info = "found"
        /\ calls[k].id \notin CandidateIds

\* out is raw without its leading and trailing whitespace.
Trimmed(raw, out) ==
    /\ out # <<>> => out[1] # " " /\ out[Len(out)] # " "
    /\ \E a \in 0..Len(raw) :
          /\ a + Len(out) <= Len(raw)
          /\ SubSeq(raw, a + 1, a + Len(out)) = out
          /\ \A i \in (1..a) \cup ((a + Len(out) + 1)..Len(raw)) : raw[i] = " "

\* C9 (as stated): a draft whose request carries neither examples nor
\* templates was requested with the simpler instruction set.
C9_AsStated ==
    LET rq == last_gen.requests
    IN  (/\ last_gen.id # "-"
         /\ Truthy(last_gen.draft)
         /\ rq # <<>>
         /\ rq[Len(rq)].examples = <<>>
         /\ rq[Len(rq)].templates = <<>>)
           => rq[Len(rq)].kind \in {"same_day", "apology"}

\* C9 (amended): the last completion request of a generation decides its
\* draft.  It is the customized request only when that one came back with
\* non-blank text; otherwise (no training system, or a customized request
\* that failed or came back blank) it is the simpler instruction set, with
\* no examples and no templates, in the same-day branch exactly when the
\* age in days is 0.  The draft is the provider's text with the surrounding
\* whitespace trimmed, and there is none when the request failed.
C9_Fallback ==
    LET rq == last_gen.requests
        n  == Len(rq)
    IN  (last_gen.id # "-" /\ n > 0) =>
          LET last == rq[n]
              age  == now - Listed(last_gen.id).receivedDateTime.t
          IN  /\ last.kind \in {"customized", "same_day", "apology"}
              /\ \A k \in 1..(n - 1) :
                    /\ rq[k].kind \in {"classify", "customized"}
                    /\ rq[k].kind = "customized"
                          => ~rq[k].ok \/ Trimmed(rq[k].text, <<>>)
              /\ last.kind = "customized" => last.ok /\ ~Trimmed(last.text, <<>>)
              /\ last.kind # "customized" =>
                    /\ last.examples = <<>> /\ last.templates = <<>>
                    /\ last.kind = "same_day" <=> last.days = 0
              /\ last.days * TicksPerDay <= age
              /\ age < (last.days + 1) * TicksPerDay
              /\ last.ok => /\ last_gen.draft.some
                            /\ Trimmed(last.text, last_gen.draft.text)
              /\ ~last.ok => ~last_gen.draft.some

\* C9: an email of age 0 drafted by the same-day request alone, its text
\* trimmed.
C9_Witness ==
    /\ last_gen.id # "-"
    /\ Len(last_gen.requests) = 1
    /\ last_gen.requests[1].kind = "same_day"
    /\ last_gen.requests[1].days = 0
    /\ Truthy(last_gen.draft)
    /\ last_gen.requests[1].text # last_gen.draft.text

\* C10 (as stated): the same-day branch is requested exactly for the age 0
\* and the apology branch only for an age greater than 0.
C10_AgeBranch ==
    \A k \in DOMAIN last_gen.requests :
        LET r == last_gen.requests[k]
        IN  /\ r.kind = "same_day" => r.days = 0
            /\ r.kind = "apology" => r.days > 0
            /\ (r.kind \in {"same_day", "apology"} /\ r.days = 0)
                  => r.kind = "same_day"

(***************************************************************************)
(* Properties of the result and of failures.                               *)
(***************************************************************************)
\* The sender passes the allow-list.
PassesGate(sender) ==
    \/ allowed_domains = <<>>
    \/ \E i \in DOMAIN allowed_domains : allowed_domains[i] = AfterLastAt(sender)

\* The candidates the loop of process_emails has been through.
Handled == SubSeq(emails, 1, idx - 1)

\* The loop of process_emails is running, or the scan has ended after it.
InLoopOrAfter == pc = "process" \/ (pc = "idle" /\ result.message = "completed")

\* a is b with some of its elements left out.
RECURSIVE IsSubseq(_, _)
IsSubseq(a, b) ==
    IF a = <<>> THEN TRUE
    ELSE IF b = <<>> THEN FALSE
    ELSE IF Head(a) = Head(b) THEN IsSubseq(Tail(a), Tail(b))
    ELSE IsSubseq(a, Tail(b))

\* The generation returned a text that is not empty.
HasText(d) == d.some /\ Len(d.text) > 0

\* C11 (as stated): an email's generation ends in an error exactly when the
\* completion provider failed for it.
C11_AsStated ==
    last_gen.id # "-" =>
        (~HasText(last_gen.draft)
            <=> \E k \in DOMAIN last_gen.requests : ~last_gen.requests[k].ok)

\* C11 (amended): the drafts counted and the errors recorded add up to the
\* domain-allowed candidates handled so far; the errors name subjects of
\* allowed candidates, in candidate order; a generation that returns no
\* text or an empty one appends the error naming its email and creates no
\* draft; a created draft is counted; the returned processed_count is the
\* count of the loop.
C11_Accounting ==
    InLoopOrAfter =>
        LET allowed == SelectSeq(Handled, LAMBDA e : PassesGate(e.sender))
            errs    == result.errors
        IN  /\ processed_count + Len(errs) = Len(allowed)
            /\ IsSubseq([i \in DOMAIN errs |-> errs[i].ref],
                        [i \in DOMAIN allowed |-> allowed[i].subject])
            /\ (pc = "process" /\ last_gen.id # "-" /\ ~HasText(last_gen.draft)) =>
                  /\ errs # <<>>
                  /\ errs[Len(errs)] = [what |-> "generate",
                                        ref |-> emails[idx - 1].subject]
                  /\ CallsOf("create_draft") = {}
            /\ pc = "idle" =>
                  /\ result.processed_count = processed_count
                  /\ result.success

\* C11: a scan of two allowed candidates, one generation failure, one draft.
C11_Witness ==
    /\ pc = "idle"
    /\ result.message = "completed"
    /\ Len(emails) = 2
    /\ \A i \in DOMAIN emails : PassesGate(emails[i].sender)
    /\ result.processed_count = 1
    /\ Len(result.errors) = 1
    /\ result.errors[1].what = "generate"

\* C12: a scan whose authentication succeeded returns success = true,
\* whatever failed afterwards; only the authentication failure returns
\* success = false.
C12_SuccessFlag ==
    (pc = "idle" /\ result # NoResult) =>
        (result.success <=> result.message # "auth_failed")

\* C12: a scan in which every candidate failed has returned success = true.
C12_Witness ==
    /\ pc = "idle"
    /\ result.message = "completed"
    /\ result.success
    /\ result.processed_count = 0
    /\ Len(result.errors) = Len(emails)
    /\ Len(emails) = 2

\* C13: a scan whose authentication failed has ended at once: its only
\* call is the failed token request; it has listed nothing and has no
\* candidates; its result has success = false, processed_count = 0, no
\* errors and the authentication-failure message.
C13_AuthFailure ==
    result.message = "auth_failed" =>
        /\ pc = "idle"
        /\ \A k \in DOMAIN calls : calls[k].op = "authenticate" /\ ~calls[k].ok
        /\ fetched = <<>> /\ emails = <<>> /\ last_gen = NoGen
        /\ result = [success |-> FALSE, processed_count |-> 0, errors |-> <<>>,
                     message |-> "auth_failed"]

\* C13: the authentication of a second scan fails while the token of the
\* first one is still valid, after the first scan created a draft.
C13_Witness ==
    /\ result.message = "auth_failed"
    /\ calls # <<>>
    /\ left = 0
    /\ drafts # <<>>
    /\ access_token /\ now < token_expires

\* The request came back without text: it failed, or its text is blank.
NoText(r) == ~r.ok \/ Trimmed(r.text, <<>>)

\* C14 (as stated): no draft creation is attempted for an email for which
\* some completion request for a response failed or came back blank.
C14_AsStated ==
    (last_gen.id # "-"
        /\ \E k \in DOMAIN last_gen.requests :
              /\ last_gen.requests[k].kind # "classify"
              /\ NoText(last_gen.requests[k]))
      => CallsOf("create_draft") = {}

\* C14 (amended): when the last completion request of an email's generation
\* fails or comes back blank, no draft creation is attempted for the email,
\* the error naming it is recorded and the loop goes on; the scan ends only
\* when every candidate has been handled, with success = true.
C14_Isolation ==
    /\ (pc = "process" /\ last_gen.id # "-") =>
          LET rq == last_gen.requests
          IN  /\ rq # <<>>
              /\ last_gen.id = emails[idx - 1].id
              /\ NoText(rq[Len(rq)]) =>
                    /\ CallsOf("create_draft") = {}
                    /\ \A i \in DOMAIN drafts : drafts[i].body # <<>>
                    /\ result.errors # <<>>
                    /\ result.errors[Len(result.errors)] =
                          [what |-> "generate", ref |-> emails[idx - 1].subject]
    /\ pc = "process" => idx <= Len(emails) + 1
    /\ (pc = "idle" /\ emails # <<>> /\ result.message # "auth_failed") =>
          /\ result.message = "completed"
          /\ idx = Len(emails) + 1
          /\ result.success

\* C14: the generation of the first candidate failed and the second
\* candidate has been drafted.
C14_Witness ==
    /\ pc = "process"
    /\ idx = 3
    /\ result.errors = <<[what |-> "generate", ref |-> emails[1].subject]>>
    /\ last_gen.id = emails[2].id
    /\ HasText(last_gen.draft)
    /\ drafts # <<>>
    /\ drafts[1].reply_to = emails[2].id

\* C15 (as stated): the type tag of every customized request, the one
\* handed to the context selectors, is one of the five known types.
C15_SafeDefault ==
    \A k \in DOMAIN last_gen.requests :
        last_gen.requests[k].kind = "customized" =>
            last_gen.requests[k].email_type
                \in {"inquiry", "complaint", "follow-up", "request", "general"}

\* C16 (as stated): a scan whose listing request failed has no candidates,
\* has ended without a completion call or a draft creation, and its result
\* reports the failure: it is not the result of a scan that found nothing.
C16_FetchFailure ==
    (\E k \in CallsOf("list_messages") : ~calls[k].ok) =>
        /\ pc = "idle"
        /\ emails = <<>>
        /\ CallsOf("complete") \cup CallsOf("create_draft") = {}
        /\ result # [success |-> TRUE, processed_count |-> 0, errors |-> <<>>,
                     message |-> "no_emails"]

\* The last step was the intake of the item fetched[idx - 1] and made calls.
IntakeCalled == pc = "intake" /\ idx > 1 /\ calls # <<>>

\* The detector query op of the last step was answered.
Answered(op) == \E k \in CallsOf(op) : calls[k].ok

\* After the intake of an item whose detectors were run: a query that
\* failed reports no match; the email is a candidate when both queries
\* failed, and otherwise when the answered ones found nothing.
C17_Detectors ==
    IntakeCalled =>
        LET m == fetched[idx - 1]
            found(op) == \E k \in CallsOf(op) : calls[k].info = "found"
        IN  /\ \A k \in DOMAIN calls :
                  /\ calls[k].op \in {"authenticate", "list_drafts", "list_replies"}
                  /\ calls[k].op # "authenticate" => calls[k].id = m.id
                  /\ ~calls[k].ok => calls[k].info \in {"none", "-"}
            /\ (~Answered("list_drafts") /\ ~Answered("list_replies"))
                  => emails # <<>> /\ emails[Len(emails)].id = m.id
            /\ m.id \in CandidateIds
                  <=> ~found("list_drafts") /\ ~found("list_replies")

\* A step of intake in which a token request or a detector query failed
\* goes on to the next item and keeps the candidates found so far.
C17_Step ==
    (pc = "intake" /\ \E k \in DOMAIN calls' : ~calls'[k].ok) =>
        /\ pc' = "intake"
        /\ idx' = idx + 1
        /\ Len(emails') >= Len(emails)
        /\ SubSeq(emails', 1, Len(emails)) = emails

\* C17: a detector whose query fails reports no match, the email stays a
\* candidate unless the other detector finds a match, and intake goes on
\* with the candidates found so far.
C17_FailOpen == []C17_Detectors /\ [][C17_Step]_vars

\* C17: both queries failed for the second item; it has joined the first
\* candidate.
C17_Witness ==
    /\ IntakeCalled
    /\ CallsOf("list_drafts") # {} /\ ~Answered("list_drafts")
    /\ CallsOf("list_replies") # {} /\ ~Answered("list_replies")
    /\ Len(emails) = 2
    /\ emails[2].id = fetched[idx - 1].id

\* C18: when a training file does not load, the customized request of the
\* pipeline carries an empty block for it (the TrainingSystem was
\* constructed, with an empty collection), and the generation still ends
\* with a draft whenever its last completion request comes back with text.
C18_StorageFailure ==
    last_gen.id # "-" =>
        LET rq == last_gen.requests
        IN  /\ rq # <<>>
            /\ \A k \in DOMAIN rq :
                  rq[k].kind = "customized" =>
                    /\ training_file.state # "ok" => rq[k].examples = <<>>
                    /\ templates_file.state # "ok" => rq[k].templates = <<>>
            /\ HasText(last_gen.draft) <=> ~NoText(rq[Len(rq)])

\* C18: with damaged files that hold records, the customized request is
\* sent with empty blocks and its text is drafted.
C18_Witness ==
    /\ training_file.state = "corrupt" /\ training_file.data # <<>>
    /\ templates_file.state = "corrupt" /\ templates_file.data # <<>>
    /\ last_gen.id # "-"
    /\ Len(last_gen.requests) = 2
    /\ last_gen.requests[2].kind = "customized"
    /\ last_gen.requests[2].examples = <<>>
    /\ last_gen.requests[2].templates = <<>>
    /\ HasText(last_gen.draft)
    /\ drafts # <<>>

\* The calendar day of a time.
DayOf(t) == t \div TicksPerDay

\* C19 (as stated): with a threshold of 0 days, once intake is over, the
\* candidates are exactly the listed emails received on the day of the
\* scan, up to the time of the scan.
C19_TodayOnly ==
    (days_threshold = 0 /\ IntakeOver) =>
        \A i \in DOMAIN fetched :
            LET m == fetched[i]
            IN  m.id \in CandidateIds
                  <=> /\ DayOf(m.receivedDateTime.t) = DayOf(threshold_date)
                      /\ m.receivedDateTime.t <= threshold_date

\* The identifiers of a list of messages or emails, in its order.
IdsOf(list) == [i \in DOMAIN list |-> list[i].id]

\* The listing is in descending order of receipt; the candidates are listed
\* emails in the order of the listing; the calls of a pass of the loop are
\* those of the one candidate it handles, the completion calls before the
\* draft creation.
C20_Order ==
    /\ \A i, j \in DOMAIN fetched :
          i < j => fetched[i].receivedDateTime.t >= fetched[j].receivedDateTime.t
    /\ IsSubseq(IdsOf(emails), IdsOf(fetched))
    /\ (pc = "process" /\ calls # <<>>) =>
          /\ idx > 1
          /\ \A k \in DOMAIN calls :
                /\ calls[k].op \in {"authenticate", "complete", "create_draft"}
                /\ calls[k].op # "authenticate" => calls[k].id = emails[idx - 1].id
          /\ \A k, l \in DOMAIN calls :
                (calls[k].op = "create_draft" /\ calls[l].op = "complete") => l < k

\* A pass of the loop moves on to the next candidate of the list, and the
\* candidate list does not change during the loop.
C20_Step ==
    pc = "process" =>
        /\ idx' \in {idx, idx + 1}
        /\ pc' = "process" => emails' = emails
        /\ calls' # <<>> => idx' = idx + 1

DraftRequests ==
    SelectSeq(last_gen.requests, LAMBDA r : r.kind # "classify")

\* C21 as stated: once a draft-generation completion call for an email has
\* failed (error or no text), no further draft-generation completion call
\* is made for that email.
C21_AsStated ==
    \A k \in DOMAIN DraftRequests :
        NoText(DraftRequests[k]) => k = Len(DraftRequests)

\* C21, amended: a generation sends at most one classification, at most one
\* customized and at most one default request, in that order, and never the
\* same request twice; a failed customized request is followed by the one
\* default request; once the default request has failed no completion call
\* follows it, no draft is created and the email ends with one error.
C21_NoRetry ==
    last_gen.id # "-" =>
        LET reqs == last_gen.requests
            dflt == {k \in DOMAIN reqs : reqs[k].kind \in {"same_day", "apology"}}
        IN  /\ \A j, k \in DOMAIN reqs : j < k => reqs[j].kind # reqs[k].kind
            /\ Cardinality(dflt) <= 1
            /\ \A k \in dflt : k = Len(reqs)
            /\ \A k \in DOMAIN reqs :
                  reqs[k].kind = "customized" =>
                      /\ k = 2 /\ reqs[1].kind = "classify"
                      /\ NoText(reqs[k]) <=> Len(reqs) = 3
            /\ Cardinality(CallsOf("complete")) = Len(reqs)
            /\ (\E k \in dflt : NoText(reqs[k])) =>
                  /\ ~HasText(last_gen.draft)
                  /\ CallsOf("create_draft") = {}
                  /\ pc = "process" =>
                        /\ result.errors # <<>>
                        /\ result.errors[Len(result.errors)] =
                              [what |-> "generate", ref |-> emails[idx - 1].subject]

\* A customized request failed, the default request after it failed too,
\* and the email ended as a failure.
C21_Witness ==
    /\ pc = "process"
    /\ last_gen.id # "-"
    /\ Len(last_gen.requests) = 3
    /\ ~last_gen.requests[2].ok
    /\ ~last_gen.requests[3].ok
    /\ Len(result.errors) = 1
    /\ drafts = <<>>

\* Every record of the persisted sequence old is in new, unchanged and at
\* the same position.
KeepsRecords(old, new) ==
    /\ Len(old) <= Len(new)
    /\ \A i \in DOMAIN old : new[i] = old[i]

\* C22: across process starts and authoring calls a persisted record stays
\* persisted, unchanged and at the same position, and a step adds at most
\* one record, at the end of the persisted sequence.
C22_AppendOnly ==
    [][/\ KeepsRecords(training_file.data, training_file'.data)
       /\ Len(training_file'.data) <= Len(training_file.data) + 1
       /\ KeepsRecords(templates_file.data, templates_file'.data)
       /\ Len(templates_file'.data) <= Len(templates_file.data) + 1]_vars

\* The candidates the Domain Gate skips.
DomainSkipped == {i \in DOMAIN emails : ~PassesGate(emails[i].sender)}

\* The three outcomes of one pass of the loop over candidate e.
SkippedOutcome(e) ==
    /\ ~PassesGate(e.sender)
    /\ calls' = <<>>
    /\ drafts' = drafts
    /\ result'.errors = result.errors
    /\ processed_count' = processed_count

DraftedOutcome(e) ==
    /\ PassesGate(e.sender)
    /\ Len(drafts') = Len(drafts) + 1
    /\ drafts'[1].reply_to = e.id
    /\ processed_count' = processed_count + 1
    /\ result'.errors = result.errors

FailedOutcome(e) ==
    /\ PassesGate(e.sender)
    /\ drafts' = drafts
    /\ processed_count' = processed_count
    /\ Len(result'.errors) = Len(result.errors) + 1
    /\ SubSeq(result'.errors, 1, Len(result.errors)) = result.errors
    /\ result'.errors[Len(result'.errors)].ref = e.subject

\* One pass of the loop ends in one of the three outcomes (no two of them
\* can hold together).
C23_Step ==
    (pc = "process" /\ idx' = idx + 1) =>
        \/ SkippedOutcome(emails[idx])
        \/ DraftedOutcome(emails[idx])
        \/ FailedOutcome(emails[idx])

C23_Total ==
    (pc = "idle" /\ result.message = "completed") =>
        result.processed_count + Len(result.errors) + Cardinality(DomainSkipped)
            = Len(emails)

\* C23: every candidate of a scan ends skipped by the Domain Gate, drafted
\* or failed, and at the end of a completed scan processed_count plus the
\* error entries plus the domain-skipped emails is the number of candidates.
C23_Outcomes == [][C23_Step]_vars /\ []C23_Total

\* A completed scan of two candidates, one skipped by the gate and one
\* whose draft creation failed.
C23_Witness ==
    /\ pc = "idle"
    /\ result.message = "completed"
    /\ Len(emails) = 2
    /\ Cardinality(DomainSkipped) = 1
    /\ result.processed_count = 0
    /\ Len(result.errors) = 1
    /\ result.errors[1].what = "create"

\* The last completion request of the last generation.
LastRequest == last_gen.requests[Len(last_gen.requests)]

\* The step has created the draft d for the candidate e: it is the newest
\* draft of the folder, the older ones are untouched, and exactly one
\* create_draft request was sent.
CreatedFor(d, e) ==
    /\ drafts' = <<d>> \o drafts
    /\ pc = "process" /\ idx' = idx + 1
    /\ e = emails[idx]
    /\ Cardinality({k \in DOMAIN calls' : calls'[k].op = "create_draft"}) = 1

C24_Step ==
    drafts' # drafts =>
        /\ Len(drafts') = Len(drafts) + 1
        /\ CreatedFor(drafts'[1], emails[idx])
        /\ drafts'[1].subject = <<"Re: ">> \o emails[idx].subject
        /\ drafts'[1].to = <<emails[idx].sender>>
        /\ drafts'[1].body # <<>>
        /\ last_gen'.id = emails[idx].id
        /\ last_gen'.requests # <<>>
        /\ LastRequest'.ok
        /\ LastRequest'.kind # "classify"
        /\ Trimmed(LastRequest'.text, drafts'[1].body)

\* The candidates of a scan are distinct messages.
C24_Distinct ==
    \A i, j \in DOMAIN emails : i # j => emails[i].id # emails[j].id

\* C24: every draft a scan creates has as body the provider's text with the
\* surrounding whitespace removed, never empty; as subject "Re: " followed
\* by the email's subject; the email's sender as its only recipient; and
\* each candidate is passed once, so at most one draft is created for it.
C24_DraftContent == [][C24_Step]_vars /\ []C24_Distinct

\* A draft made of the customized completion's text " ok ", trimmed.
C24_Witness ==
    /\ pc = "process"
    /\ Len(drafts) = 1
    /\ drafts[1].body = <<"o", "k">>
    /\ drafts[1].to = <<emails[1].sender>>
    /\ last_gen.id = emails[1].id
    /\ Len(last_gen.requests) = 2
    /\ last_gen.requests[2].text = <<" ", "o", "k", " ">>

\* The requests that read from the mailbox provider, and the token request.
ReadOps == {"authenticate", "list_messages", "list_drafts", "list_replies"}

\* A step of the intake: the listing request, or one listed item with its
\* detectors.
IntakeStep == pc \in {"fetch", "intake"}

C25_Step ==
    /\ messages' = messages
    /\ IntakeStep =>
          /\ drafts' = drafts
          /\ \A k \in DOMAIN calls' : calls'[k].op \in ReadOps
    /\ drafts' # drafts =>
          /\ pc = "process"
          /\ \E k \in DOMAIN calls' :
                calls'[k].op = "create_draft" /\ calls'[k].ok

\* C25: the intake and both detectors only read; the messages, their read
\* flags and the drafts are unchanged by them, and the only change a scan
\* makes to the mailbox is the draft that process_emails creates.
C25_ReadOnly == [][C25_Step]_vars

\* The intake has asked both detectors about a listed message, over a
\* mailbox that holds a draft.
C25_Witness ==
    /\ pc = "intake"
    /\ idx = 2
    /\ CallsOf("list_drafts") # {}
    /\ CallsOf("list_replies") # {}
    /\ drafts # <<>>
    /\ \A i \in DOMAIN messages : ~messages[i].isRead

\* C26: once the listing request has been answered, every message of the
\* mailbox received within the threshold window is among the fetched
\* messages, whatever DAYS_THRESHOLD is configured.
C26_LookbackCovers ==
    pc = "intake" =>
        \A i \in DOMAIN messages :
            messages[i].receivedDateTime.t >= threshold_date =>
                \E j \in DOMAIN fetched : fetched[j].id = messages[i].id

\* An authoring call has returned: the in-memory collection has one more
\* record than before.
Authored(before, after) == Len(after) = Len(before) + 1

\* C27: after add_training_example (add_response_template) returns, the
\* persisted collection and the in-memory collection hold the same records
\* in the same order, also when the write to storage failed.
C27_Consistent ==
    [][/\ Authored(training_examples, training_examples') =>
             training_file'.data = training_examples'
       /\ Authored(templates, templates') =>
             templates_file'.data = templates']_vars

\* The drafts that answer the message id.
DraftsFor(id) == {i \in DOMAIN drafts : drafts[i].reply_to = id}

C28_OnePerEmail ==
    \A i \in DOMAIN messages : Cardinality(DraftsFor(messages[i].id)) <= 1

\* A message is marked read only in a step that created its draft, and
\* processed_count goes up by one exactly in the steps that create a draft.
C28_Step ==
    /\ \A i \in DOMAIN messages :
          (~messages[i].isRead /\ messages'[i].isRead) =>
              /\ Len(drafts') = Len(drafts) + 1
              /\ drafts'[1].reply_to = messages[i].id
    /\ (pc = "process" /\ pc' = "process") =>
          processed_count' - processed_count = Len(drafts') - Len(drafts)

\* C28: across the cycles of the scheduled integration at most one draft is
\* created per email; an email is marked read only after its draft was
\* created, and processed_count counts the created drafts.
C28_NoDuplicates == []C28_OnePerEmail /\ [][C28_Step]_vars

\* The requests to the mailbox provider.
MailOps == {"list_messages", "list_drafts", "list_replies", "create_draft"}

\* The token held is present and not expired.
TokenValid == access_token /\ now < token_expires

\* Every mailbox request of the last step went out under a valid token.
C29_Valid ==
    \A k \in DOMAIN calls : calls[k].op \in MailOps => TokenValid

\* A step of a running scan: a request made without a valid token comes
\* after a successful token request of the same call; after a failed one
\* the request is not sent, and the operation returns its failure value:
\* the listing the empty list, a detector "none", create_draft False.
C29_Step ==
    pc # "idle" =>
        /\ \A k \in DOMAIN calls' :
              (calls'[k].op \in MailOps /\ ~TokenValid) =>
                  \E j \in 1..(k - 1) :
                      calls'[j].op = "authenticate" /\ calls'[j].ok
        /\ \A k \in DOMAIN calls' :
              (calls'[k].op = "authenticate" /\ ~calls'[k].ok) =>
                  /\ k < Len(calls') => calls'[k + 1].op \notin MailOps
                  /\ pc = "fetch" => pc' = "idle" /\ emails' = <<>>
                  /\ pc = "intake" => pc' = "intake"
                  /\ (pc = "process" /\ k = Len(calls')) =>
                        /\ drafts' = drafts
                        /\ processed_count' = processed_count
                        /\ Len(result'.errors) = Len(result.errors) + 1
                        /\ result'.errors[Len(result'.errors)].what = "create"

\* C29: every mailbox request is sent with a token that is present and not
\* expired; _get_headers authenticates first when the token is absent or
\* has expired, and when that fails the request is not sent and the
\* operation returns its failure value instead of raising.
C29_TokenValidity == []C29_Valid /\ [][C29_Step]_vars

\* The token expired during the scan and a detector request went out after
\* _get_headers had authenticated again.
C29_Witness ==
    /\ now = 1
    /\ pc = "intake"
    /\ Len(calls) >= 2
    /\ calls[1].op = "authenticate" /\ calls[1].ok
    /\ calls[2].op = "list_drafts"
    /\ TokenValid

====
